---- MODULE Spec2Model ----
(***************************************************************************)
(* Dekadal NDVI compositing pipeline (beltran99/sinergise-task).           *)
(*                                                                         *)
(* Time is counted in whole days since 1970-01-01 (the epoch of            *)
(* numpy.datetime64); a datetime is the integer number of its day.  An ISO *)
(* date string "YYYY-MM-DD[T00:00:00Z]" is the tuple <<Y, M, D>> of its    *)
(* fields, so formatting and parsing are real conversions.                 *)
(* A raster is a function from Pixels to a pixel value; a pixel value is   *)
(* NaN or a rational <<numerator, denominator>>.                           *)
(***************************************************************************)
EXTENDS Integers, Sequences, FiniteSets, TLC

VARIABLES
    package,          \* "src.pipeline" (src/src/pipeline/*) or "src" (src/src/*.py)
    time_interval,    \* the requested interval, a pair of ISO date strings
    catalog,          \* acquisition days the external catalog holds (cloud cover < 10)
    pc,               \* position of the run: search, download, transform, fill_gaps, done, error
    search_interval,  \* argument of the current invocation of search: <<start, end>> in days
    depth,            \* number of recursive invocations of search made so far
    calls,            \* the invocations of search so far: what each queried, tested and found
    search_results,   \* what search returned: sequence of acquisition days
    target_times,     \* dekadal targets computed by download
    xarrays,          \* one [time, data] per search result, as process_sentinel_responses builds
    mvc,              \* support points assembled by transform: sequence of [time, data]
    composite,        \* interp_composite: the cube, a sequence of [time, data] slices
    gaps,             \* gap dates detected by transform
    clms,             \* what fill_gaps fetched: one [time_target, collection, data] per gap
    error,            \* the exception that ended the run, or "none"
    call,             \* a direct call of a pure function of src/src/utils.py
    ret               \* <<>> until that call returns, then <<the value returned>>

vars == <<package, time_interval, catalog, pc, search_interval, depth, calls,
          search_results, target_times, xarrays, mvc, composite, gaps, clms, error, call, ret>>

pipelineVars == <<package, time_interval, catalog, pc, search_interval, depth,
                  calls, search_results, target_times, xarrays, mvc,
                  composite, gaps, clms, error>>

----------------------------------------------------------------------------
(* Bounds of the model                                                     *)

\* recursive invocations of search that are followed
MaxDepth == 3
\* observations in the catalog of a full pipeline run
MaxObs == 2
\* length of the date list handed to has_dates_around_target
MaxDates == 3
\* days after FirstDay from which get_dekadal_targets draws start and end
DateSpan == 100

\* a missing pixel value; a present one is the rational <<numerator, denominator>>
NaN == <<>>
None == "none"

----------------------------------------------------------------------------
(* datetime: the proleptic Gregorian calendar                              *)

\* datetime(y, m, d, 0, 0, 0) as a day number
ToDays(y, m, d) ==
    LET yy  == IF m <= 2 THEN y - 1 ELSE y
        era == yy \div 400
        yoe == yy - era * 400
        mp  == IF m > 2 THEN m - 3 ELSE m + 9
        doy == (153 * mp + 2) \div 5 + d - 1
        doe == yoe * 365 + yoe \div 4 - yoe \div 100 + doy
    IN  era * 146097 + doe - 719468

\* the <<year, month, day>> fields of a day number
Civil(z) ==
    LET zz  == z + 719468
        era == zz \div 146097
        doe == zz - era * 146097
        yoe == (doe - doe \div 1460 + doe \div 36524 - doe \div 146096) \div 365
        doy == doe - (365 * yoe + yoe \div 4 - yoe \div 100)
        mp  == (5 * doy + 2) \div 153
        d   == doy - (153 * mp + 2) \div 5 + 1
        m   == IF mp < 10 THEN mp + 3 ELSE mp - 9
        y   == yoe + era * 400
    IN  <<IF m <= 2 THEN y + 1 ELSE y, m, d>>

\* datetime.fromisoformat / numpy.datetime64 of an ISO string
fromisoformat(iso) == ToDays(iso[1], iso[2], iso[3])

\* datetime.isoformat / str(t.astype('datetime64[D]'))
isoformat(t) == Civil(t)

----------------------------------------------------------------------------
(* src/src/utils.py                                                        *)

\* the fixed dekads of a month
dekads == <<1, 11, 21>>

\* the inner loop over dekads for one month: appends the ISO strings kept
RECURSIVE MonthDekads(_, _, _, _, _, _)
MonthDekads(year, month, i, start_date, end_date, targets) ==
    IF i > Len(dekads) THEN targets
    ELSE LET d == ToDays(year, month, dekads[i])
         IN  MonthDekads(year, month, i + 1, start_date, end_date,
                         IF d >= start_date /\ d <= end_date
                         THEN Append(targets, isoformat(d))
                         ELSE targets)

\* the while loop over months
RECURSIVE MonthLoop(_, _, _, _, _)
MonthLoop(year, month, start_date, end_date, targets) ==
    LET endY == Civil(end_date)[1]
        endM == Civil(end_date)[2]
    IN  IF (year < endY) \/ (year = endY /\ month <= endM)
        THEN LET kept == MonthDekads(year, month, 1, start_date, end_date, targets)
             IN  IF month = 12
                 THEN MonthLoop(year + 1, 1, start_date, end_date, kept)
                 ELSE MonthLoop(year, month + 1, start_date, end_date, kept)
        ELSE targets

\* get_dekadal_targets with the upper comparison written d < end_date
get_dekadal_targets_open_end(start_date, end_date) ==
    MonthLoop(Civil(start_date)[1], Civil(start_date)[2], start_date, end_date - 1, <<>>)

\* get_dekadal_targets without the lower comparison in the first month
get_dekadal_targets_from_month_start(start_date, end_date) ==
    MonthLoop(Civil(start_date)[1], Civil(start_date)[2],
              ToDays(Civil(start_date)[1], Civil(start_date)[2], 1), end_date, <<>>)

get_dekadal_targets(start_date, end_date) ==
    MonthLoop(Civil(start_date)[1], Civil(start_date)[2], start_date, end_date, <<>>)

\* any(d < target for d in dates)
RECURSIVE AnySmaller(_, _)
AnySmaller(dates, target) ==
    IF dates = <<>> THEN FALSE
    ELSE IF Head(dates) < target THEN TRUE ELSE AnySmaller(Tail(dates), target)

\* any(d > target for d in dates)
RECURSIVE AnyLarger(_, _)
AnyLarger(dates, target) ==
    IF dates = <<>> THEN FALSE
    ELSE IF Head(dates) > target THEN TRUE ELSE AnyLarger(Tail(dates), target)

\* has_dates_around_target with the lower comparison written d <= target
has_dates_around_target_le(dates, target) ==
    AnySmaller(dates, target + 1) /\ AnyLarger(dates, target)

has_dates_around_target(dates, target) ==
    LET has_smaller == AnySmaller(dates, target)
        has_larger  == AnyLarger(dates, target)
    IN  has_smaller /\ has_larger

----------------------------------------------------------------------------
(* Direct calls of the pure functions                                      *)

FirstDay == ToDays(2023, 12, 5)

DateCalls ==
    { [fn |-> "get_dekadal_targets", start_date |-> s, end_date |-> e] :
        s \in FirstDay .. (FirstDay + DateSpan), e \in FirstDay .. (FirstDay + DateSpan) }

RECURSIVE SeqsUpTo(_, _)
SeqsUpTo(S, n) ==
    IF n = 0 THEN {<<>>}
    ELSE LET shorter == SeqsUpTo(S, n - 1)
         IN  shorter \cup { Append(q, x) : q \in { r \in shorter : Len(r) = n - 1 }, x \in S }

AroundTarget == ToDays(2025, 8, 11)

AroundCalls ==
    { [fn |-> "has_dates_around_target", dates |-> ds, target |-> AroundTarget] :
        ds \in SeqsUpTo((AroundTarget - 1) .. (AroundTarget + 1), MaxDates) }

InitDates ==
    /\ call \in { c \in DateCalls : c.start_date <= c.end_date } \cup AroundCalls
    /\ ret = <<>>
    /\ package = None /\ time_interval = <<>> /\ catalog = {} /\ pc = "idle"
    /\ search_interval = <<>> /\ depth = 0 /\ calls = <<>>
    /\ search_results = <<>> /\ target_times = <<>> /\ xarrays = <<>> /\ mvc = <<>>
    /\ composite = <<>> /\ gaps = <<>> /\ clms = <<>> /\ error = None

CallDekadalTargets ==
    /\ call.fn = "get_dekadal_targets" /\ ret = <<>>
    /\ ret' = <<get_dekadal_targets(call.start_date, call.end_date)>>
    /\ UNCHANGED <<call, pipelineVars>>

CallDatesAround ==
    /\ call.fn = "has_dates_around_target" /\ ret = <<>>
    /\ ret' = <<has_dates_around_target(call.dates, call.target)>>
    /\ UNCHANGED <<call, pipelineVars>>

NextDates == CallDekadalTargets \/ CallDatesAround

SpecDates == InitDates /\ [][NextDates]_vars

----------------------------------------------------------------------------
(* The run of the pipeline: extract (search, download), transform          *)

Packages == {"src.pipeline", "src"}

\* the intervals requested on the command line, as (start, end) ISO strings
Requests ==
    { << <<2025, 8, 1>>,   <<2025, 8, 31>> >>,
      << <<2025, 7, 28>>,  <<2025, 8, 7>> >>,
      << <<2025, 2, 15>>,  <<2025, 3, 5>> >>,
      << <<2019, 12, 18>>, <<2020, 1, 5>> >>,
      << <<2013, 12, 18>>, <<2014, 1, 5>> >>,
      << <<2010, 8, 1>>,   <<2010, 8, 15>> >>,
      << <<2025, 8, 2>>,   <<2025, 8, 9>> >>,
      << <<2025, 8, 10>>,  <<2025, 9, 5>> >>,
      << <<2025, 2, 16>>,  <<2025, 3, 15>> >>,
      << <<2025, 8, 4>>,   <<2025, 8, 21>> >> }

\* acquisition days the catalog may hold, as days after the requested start
Offsets == {-17, -8, -4, 0, 4, 8, 10, 15, 18, 24}

CatalogDays(interval) == { fromisoformat(interval[1]) + o : o \in Offsets }

\* the elements of a finite set of integers in increasing order
RECURSIVE Ascending(_)
Ascending(S) ==
    IF S = {} THEN <<>>
    ELSE LET m == CHOOSE x \in S : \A y \in S : x <= y
         IN  <<m>> \o Ascending(S \ {m})

\* a catalog query that keeps answering for the requested interval
CatalogSearchRequested(interval) ==
    Ascending({ o \in catalog :
                  fromisoformat(time_interval[1]) <= o /\ o <= fromisoformat(time_interval[2]) })

\* catalog.search(..., time=search_interval, filter="eo:cloud_cover < 10") and
\* the datetimes of its items
CatalogSearch(interval) ==
    Ascending({ o \in catalog :
                  fromisoformat(interval[1]) <= o /\ o <= fromisoformat(interval[2]) })

\* the targets of the interval the resolver ended with, whatever is asked
ParsedTargetsOfSearched(start, end) ==
    LET iso == get_dekadal_targets(fromisoformat(search_interval[1]),
                                   fromisoformat(search_interval[2]))
    IN  [i \in 1 .. Len(iso) |-> fromisoformat(iso[i])]

\* targets = [fromisoformat(t) for t in get_dekadal_targets(start, end)]
ParsedTargets(start, end) ==
    LET iso == get_dekadal_targets(start, end)
    IN  [i \in 1 .. Len(iso) |-> fromisoformat(iso[i])]

\* the loop over [targets[0], targets[-1]] filling valid_results
ValidResults(result_times, targets) ==
    << has_dates_around_target(result_times, targets[1]),
       has_dates_around_target(result_times, targets[Len(targets)]) >>

\* all(valid_results) written as any(valid_results)
AllValidAny(valid) == valid[1] \/ valid[2]

\* all(valid_results)
AllValid(valid) == valid[1] /\ valid[2]

\* the widening step of timedelta(days=10)
STEP_DAYS == 10

\* the adjustment made on both edges whenever the search goes on
AdjustedBothEdges(start, end, valid) ==
    << isoformat(start - STEP_DAYS), isoformat(end + STEP_DAYS) >>

\* an adjustment that moves the start alone
AdjustedStartOnly(start, end, valid) ==
    << isoformat(IF ~valid[1] THEN start - STEP_DAYS ELSE start), isoformat(end) >>

\* the adjusted (start.isoformat(), end.isoformat())
Adjusted(start, end, valid) ==
    << isoformat(IF ~valid[1] THEN start - STEP_DAYS ELSE start),
       isoformat(IF ~valid[2] THEN end + STEP_DAYS ELSE end) >>

Init ==
    /\ package \in Packages
    /\ time_interval \in Requests
    /\ catalog \in { c \in SUBSET CatalogDays(time_interval) : Cardinality(c) <= MaxObs }
    /\ pc = "search"
    /\ search_interval = time_interval
    /\ depth = 0 /\ calls = <<>>
    /\ search_results = <<>> /\ target_times = <<>> /\ xarrays = <<>> /\ mvc = <<>>
    /\ composite = <<>> /\ gaps = <<>> /\ clms = <<>> /\ error = None
    /\ call = [fn |-> None] /\ ret = <<>>

\* one invocation of search: it returns its results, raises, or calls itself
\* with the adjusted interval
search ==
    /\ pc = "search"
    /\ LET result_times == CatalogSearch(search_interval)
           start   == fromisoformat(search_interval[1])
           end     == fromisoformat(search_interval[2])
           targets == ParsedTargets(start, end)
       IN  IF targets = <<>>
           THEN \* targets[0] raises IndexError
                /\ pc' = "error" /\ error' = "IndexError"
                /\ calls' = Append(calls, [interval |-> search_interval,
                                           result_times |-> result_times,
                                           tested |-> <<>>, valid |-> <<>>])
                /\ UNCHANGED <<search_interval, depth, search_results>>
           ELSE LET valid == ValidResults(result_times, targets)
                    this  == [interval |-> search_interval,
                              result_times |-> result_times,
                              tested |-> <<targets[1], targets[Len(targets)]>>,
                              valid |-> valid]
                IN  IF AllValid(valid)
                    THEN /\ search_results' = result_times
                         /\ pc' = "download"
                         /\ calls' = Append(calls, this)
                         /\ UNCHANGED <<search_interval, depth, error>>
                    ELSE /\ depth < MaxDepth
                         /\ search_interval' = Adjusted(start, end, valid)
                         /\ depth' = depth + 1
                         /\ calls' = Append(calls, this)
                         /\ UNCHANGED <<pc, search_results, error>>
    /\ UNCHANGED <<package, time_interval, catalog, target_times, xarrays, mvc,
                   composite, gaps, clms, call, ret>>

\* The resolver alone, over every catalog drawn from CatalogDays
InitSearch ==
    /\ package \in Packages
    /\ time_interval \in Requests
    /\ catalog \in SUBSET CatalogDays(time_interval)
    /\ pc = "search"
    /\ search_interval = time_interval
    /\ depth = 0 /\ calls = <<>>
    /\ search_results = <<>> /\ target_times = <<>> /\ xarrays = <<>> /\ mvc = <<>>
    /\ composite = <<>> /\ gaps = <<>> /\ clms = <<>> /\ error = None
    /\ call = [fn |-> None] /\ ret = <<>>

NextSearch == search

SpecSearch == InitSearch /\ [][NextSearch]_vars

----------------------------------------------------------------------------
(* download and process_sentinel_responses                                 *)

\* the pixel grid of the area of interest
Pixels == {1, 2}

\* NDVI values an acquisition may carry at a pixel
PixelValues == {1, 2}

\* the rasters the download client may return for one acquisition: the first
\* pixel missing or one of PixelValues, the second missing or the lowest value
Rasters ==
    { r \in [Pixels -> {NaN} \cup { <<v, 1>> : v \in PixelValues }] :
        r[2] # <<2, 1>> }

\* steps 2-4 of download and process_sentinel_responses: the dekadal targets of
\* the requested interval and one raster per search result
download ==
    /\ pc = "download"
    /\ target_times' = ParsedTargets(fromisoformat(time_interval[1]),
                                     fromisoformat(time_interval[2]))
    /\ \E data \in [1 .. Len(search_results) -> Rasters] :
         xarrays' = [i \in 1 .. Len(search_results) |->
                       [time |-> search_results[i], data |-> data[i]]]
    /\ pc' = "transform"
    /\ UNCHANGED <<package, time_interval, catalog, search_interval, depth, calls,
                   search_results, mvc, composite, gaps, clms, error, call, ret>>

----------------------------------------------------------------------------
(* transform                                                               *)

\* the half-width of a compositing window, np.timedelta64(10,'D')
WINDOW_DAYS == 10

\* the offset of a support point from its target, np.timedelta64(1,'D')
MVC_OFFSET_DAYS == 1

\* xr.concat(ndvi_xarrays, dim="time").sortby("time")
RECURSIVE sortby(_)
sortby(arr) ==
    IF arr = <<>> THEN <<>>
    ELSE LET k == CHOOSE i \in 1 .. Len(arr) :
                    \A j \in 1 .. Len(arr) : arr[i].time <= arr[j].time
         IN  <<arr[k]>> \o sortby(SubSeq(arr, 1, k - 1) \o SubSeq(arr, k + 1, Len(arr)))

\* a left window that starts at the previous target in both packages
LeftWindowFromPrevious(ndvi, targets, i) ==
    LET target == targets[i]
        FirstL(o)    == o.time < target
        PrevL(o)     == o.time > targets[i - 1] /\ o.time < target
    IN  IF i = 1 THEN SelectSeq(ndvi, FirstL) ELSE SelectSeq(ndvi, PrevL)

\* masked_arr_l of target i (1-based)
LeftWindow(ndvi, targets, i) ==
    LET target == targets[i]
        PipelineL(o) == o.time < target /\ o.time > target - WINDOW_DAYS
        FirstL(o)    == o.time < target
        PrevL(o)     == o.time > targets[i - 1] /\ o.time < target
    IN  IF package = "src.pipeline" THEN SelectSeq(ndvi, PipelineL)
        ELSE IF i = 1 THEN SelectSeq(ndvi, FirstL)
        ELSE SelectSeq(ndvi, PrevL)

\* a right window without upper bound in both packages
RightWindowUnbounded(ndvi, targets, i) ==
    LET target == targets[i]
        LastR(o)     == o.time > target
    IN  SelectSeq(ndvi, LastR)

\* masked_arr_r of target i (1-based)
RightWindow(ndvi, targets, i) ==
    LET target == targets[i]
        PipelineR(o) == o.time > target /\ o.time < target + WINDOW_DAYS
        LastR(o)     == o.time > target
        NextR(o)     == o.time > target /\ o.time < targets[i + 1]
    IN  IF package = "src.pipeline" THEN SelectSeq(ndvi, PipelineR)
        ELSE IF i = 1 THEN SelectSeq(ndvi, NextR)
        ELSE IF i = Len(targets) THEN SelectSeq(ndvi, LastR)
        ELSE SelectSeq(ndvi, NextR)

\* a maximum that is missing as soon as one observation is missing
MaxPropagatesNa(window) ==
    [p \in Pixels |->
        IF \E j \in 1 .. Len(window) : window[j].data[p] = NaN THEN NaN
        ELSE << CHOOSE v \in { window[j].data[p][1] : j \in 1 .. Len(window) } :
                  \A j \in 1 .. Len(window) : window[j].data[p][1] <= v, 1 >>]

\* arr.max(dim="time", skipna=True)
MaxSkipNa(window) ==
    [p \in Pixels |->
        LET present == { window[k].data[p][1] :
                           k \in { j \in 1 .. Len(window) : window[j].data[p] # NaN } }
        IN  IF present = {} THEN NaN
            ELSE << CHOOSE v \in present : \A w \in present : w <= v, 1 >>]

\* get_mvc stamping the right composite two days after the target
get_mvc_right_two_days(target, masked_arr_l, masked_arr_r) ==
    (IF Len(masked_arr_l) > 0
     THEN << [time |-> target - MVC_OFFSET_DAYS, data |-> MaxSkipNa(masked_arr_l)] >>
     ELSE <<>>)
    \o
    (IF Len(masked_arr_r) > 0
     THEN << [time |-> target + 2 * MVC_OFFSET_DAYS, data |-> MaxSkipNa(masked_arr_r)] >>
     ELSE <<>>)

\* get_mvc concatenating the right composite before the left one
get_mvc_right_before_left(target, masked_arr_l, masked_arr_r) ==
    (IF Len(masked_arr_r) > 0
     THEN << [time |-> target + MVC_OFFSET_DAYS, data |-> MaxSkipNa(masked_arr_r)] >>
     ELSE <<>>)
    \o
    (IF Len(masked_arr_l) > 0
     THEN << [time |-> target - MVC_OFFSET_DAYS, data |-> MaxSkipNa(masked_arr_l)] >>
     ELSE <<>>)

get_mvc(target, masked_arr_l, masked_arr_r) ==
    (IF Len(masked_arr_l) > 0
     THEN << [time |-> target - MVC_OFFSET_DAYS, data |-> MaxSkipNa(masked_arr_l)] >>
     ELSE <<>>)
    \o
    (IF Len(masked_arr_r) > 0
     THEN << [time |-> target + MVC_OFFSET_DAYS, data |-> MaxSkipNa(masked_arr_r)] >>
     ELSE <<>>)

\* the loop over target_times concatenating mvc_partial to mvc
RECURSIVE MvcLoop(_, _, _, _)
MvcLoop(ndvi, targets, i, acc) ==
    IF i > Len(targets) THEN acc
    ELSE MvcLoop(ndvi, targets, i + 1,
                 acc \o get_mvc(targets[i], LeftWindow(ndvi, targets, i),
                                RightWindow(ndvi, targets, i)))

\* interpolation that extends the nearest support point beyond the ends
InterpAtExtrapolate(support, t) ==
    LET n == Len(support)
    IN  IF t < support[1].time THEN support[1].data
        ELSE IF t > support[n].time THEN support[n].data
        ELSE LET first == CHOOSE i \in 1 .. n :
                            /\ support[i].time >= t
                            /\ \A j \in 1 .. (i - 1) : support[j].time < t
                 hi    == IF first < 2 THEN 2 ELSE first
                 lo    == hi - 1
                 x_lo  == support[lo].time
                 x_hi  == support[hi].time
             IN  [p \in Pixels |->
                    LET y_lo == support[lo].data[p]
                        y_hi == support[hi].data[p]
                    IN  IF y_lo = NaN \/ y_hi = NaN THEN NaN
                        ELSE << y_lo[1] * (x_hi - x_lo) + (y_hi[1] - y_lo[1]) * (t - x_lo),
                                x_hi - x_lo >>]

\* linear interpolation of the support points at one instant, as
\* scipy.interpolate.interp1d(kind="linear", bounds_error=False, fill_value=nan)
InterpAt(support, t) ==
    LET n == Len(support)
    IN  IF t < support[1].time \/ t > support[n].time \/ n = 1
        THEN [p \in Pixels |-> NaN]
        ELSE LET first == CHOOSE i \in 1 .. n :
                            /\ support[i].time >= t
                            /\ \A j \in 1 .. (i - 1) : support[j].time < t
                 hi    == IF first < 2 THEN 2 ELSE first
                 lo    == hi - 1
                 x_lo  == support[lo].time
                 x_hi  == support[hi].time
             IN  [p \in Pixels |->
                    LET y_lo == support[lo].data[p]
                        y_hi == support[hi].data[p]
                    IN  IF y_lo = NaN \/ y_hi = NaN THEN NaN
                        ELSE << y_lo[1] * (x_hi - x_lo) + (y_hi[1] - y_lo[1]) * (t - x_lo),
                                x_hi - x_lo >>]

\* an interpolation that leaves out the instants it has no value for
interp_drop_missing(support, targets) ==
    IF support = <<>>
    THEN { [raised |-> FALSE, cube |-> <<>>] }
    ELSE LET Valued(t) == \E p \in Pixels : InterpAt(support, t)[p] # <<>>
             kept == SelectSeq(targets, Valued)
         IN  { [raised |-> FALSE,
                cube |-> [i \in 1 .. Len(kept) |->
                            [time |-> kept[i], data |-> InterpAt(support, kept[i])]]] }

\* mvc.interp(time=target_times, method="linear"): the cubes it may produce.
\* With no support point at all the interpolation library is handed an empty
\* axis; whether it raises or yields missing values is left open.
interp(support, targets) ==
    IF support = <<>>
    THEN { [raised |-> TRUE, cube |-> <<>>],
           [raised |-> FALSE,
            cube |-> [i \in 1 .. Len(targets) |->
                        [time |-> targets[i], data |-> [p \in Pixels |-> NaN]]]] }
    ELSE { [raised |-> FALSE,
            cube |-> [i \in 1 .. Len(targets) |->
                        [time |-> targets[i], data |-> InterpAt(support, targets[i])]]] }

\* np.any(np.isnan(slice))
AnyNaN(raster) == \E p \in Pixels : raster[p] = NaN

\* np.all(np.isnan(slice))
AllNaN(raster) == \A p \in Pixels : raster[p] = NaN

\* the loop over interp_composite.time.values appending to gaps every time
\* whose slice is all missing
DetectGaps(cube) ==
    LET Missing(slice) == AllNaN(slice.data)
        missing == SelectSeq(cube, Missing)
    IN  [k \in 1 .. Len(missing) |-> missing[k].time]

\* transform up to the call of fill_gaps
transform ==
    /\ pc = "transform"
    /\ IF xarrays = <<>>
       THEN \* xr.concat of an empty list
            /\ pc' = "error" /\ error' = "ValueError"
            /\ UNCHANGED <<mvc, composite, gaps>>
       ELSE IF package = "src" /\ Len(target_times) = 1
       THEN \* target_times[i + 1] of the only target
            /\ pc' = "error" /\ error' = "IndexError"
            /\ UNCHANGED <<mvc, composite, gaps>>
       ELSE LET ndvi    == sortby(xarrays)
                support == MvcLoop(ndvi, target_times, 1, <<>>)
            IN  /\ mvc' = support
                /\ \E out \in interp(support, target_times) :
                     IF out.raised
                     THEN /\ pc' = "error" /\ error' = "ValueError"
                          /\ UNCHANGED <<composite, gaps>>
                     ELSE /\ composite' = out.cube
                          /\ gaps' = IF package = "src.pipeline"
                                     THEN DetectGaps(out.cube)
                                     ELSE <<>>
                          /\ pc' = IF gaps' # <<>> THEN "fill_gaps" ELSE "done"
                          /\ UNCHANGED error
    /\ UNCHANGED <<package, time_interval, catalog, search_interval, depth, calls,
                   search_results, target_times, xarrays, clms, call, ret>>

----------------------------------------------------------------------------
(* transform alone, on what extract may hand it: the targets of a requested *)
(* interval and up to MaxWindowObs observations, with one before the first *)
(* target and one after the last as search ensures                         *)

MaxWindowObs == 3

\* requested intervals whose two targets are 8 and 11 days apart
TransformRequests ==
    { << <<2025, 2, 16>>, <<2025, 3, 5>> >>,
      << <<2025, 1, 15>>, <<2025, 2, 5>> >> }

\* acquisition days, as days after the first target
TransformOffsets == {-12, -2, -1, 3, 5, 9, 10, 22}

\* the rasters tried: nothing, one pixel, the other pixel, both pixels
TransformRasters ==
    { r \in Rasters : r \in { [p \in Pixels |-> NaN],
                              (1 :> <<1, 1>>) @@ (2 :> NaN),
                              (1 :> NaN) @@ (2 :> <<1, 1>>),
                              (1 :> <<2, 1>>) @@ (2 :> <<1, 1>>) } }

InitTransform ==
    /\ package \in Packages
    /\ time_interval \in TransformRequests
    /\ target_times = ParsedTargets(fromisoformat(time_interval[1]),
                                    fromisoformat(time_interval[2]))
    /\ catalog \in { c \in SUBSET { target_times[1] + o : o \in TransformOffsets } :
                       /\ Cardinality(c) <= MaxWindowObs
                       /\ \E o \in c : o < target_times[1]
                       /\ \E o \in c : o > target_times[Len(target_times)] }
    /\ search_results = Ascending(catalog)
    /\ xarrays \in { x \in [1 .. Len(search_results) -> [time : catalog, data : TransformRasters]] :
                       \A i \in 1 .. Len(search_results) : x[i].time = search_results[i] }
    /\ pc = "transform"
    /\ search_interval = time_interval
    /\ depth = 0 /\ calls = <<>>
    /\ mvc = <<>> /\ composite = <<>> /\ gaps = <<>> /\ clms = <<>> /\ error = None
    /\ call = [fn |-> None] /\ ret = <<>>

NextTransform == transform

SpecTransform == InitTransform /\ [][NextTransform]_vars

----------------------------------------------------------------------------
(* fill_gaps and download_CLMS                                             *)

CLMS_NDVI_V1 == "byoc-41f33765-18a0-4e1a-ade2-b4093254ce68"
CLMS_NDVI_V2 == "byoc-ab0e1e8e-508c-4faa-9b5b-c9c4734ef29e"

\* the digital numbers a CLMS raster may carry at a pixel
ClmsValues == {20, 145}

\* the CLMS rasters tried: the two pixels carry different numbers
ClmsRasters == { r \in [Pixels -> ClmsValues] : r[1] # r[2] }

\* the collection chosen for a year with the epoch boundary one year late
CollectionForLateBoundary(target_year) ==
    IF target_year > 2020 THEN CLMS_NDVI_V2
    ELSE IF target_year >= 2014 /\ target_year <= 2020 THEN CLMS_NDVI_V1
    ELSE None

\* a choice that serves the years before 2014 from the first product
CollectionForAnyYear(target_year) ==
    IF target_year >= 2020 THEN CLMS_NDVI_V2 ELSE CLMS_NDVI_V1

\* the byoc_collection chosen for a year, None where download_CLMS raises
CollectionFor(target_year) ==
    IF target_year >= 2020 THEN CLMS_NDVI_V2
    ELSE IF target_year >= 2014 /\ target_year < 2020 THEN CLMS_NDVI_V1
    ELSE None

\* a rescale that leaves out the offset
RescaleNoOffset(raster) == [p \in Pixels |-> << raster[p], 250 >>]

\* clms_data = value * factor + offset with factor = 1 / 250.0, offset = -0.08,
\* as the exact rational (value - 20) / 250
Rescale(raster) == [p \in Pixels |-> << raster[p] - 20, 250 >>]

\* the loop over gaps assigning composite.loc[dict(time=gap)]
RECURSIVE FillLoop(_, _, _, _)
FillLoop(gap_list, g, cube, fetched) ==
    IF g > Len(gap_list) THEN cube
    ELSE FillLoop(gap_list, g + 1,
                  [i \in 1 .. Len(cube) |->
                     IF cube[i].time = gap_list[g]
                     THEN [time |-> cube[i].time, data |-> Rescale(fetched[g].data)]
                     ELSE cube[i]],
                  fetched)

\* a fill that overwrites every slice of the composite with the first gap's data
FillAll(gap_list, cube, fetched) ==
    [i \in 1 .. Len(cube) |-> [time |-> cube[i].time, data |-> Rescale(fetched[1].data)]]

\* the composite after the overwriting loop of fill_gaps
Filled(gap_list, cube, fetched) == FillLoop(gap_list, 1, cube, fetched)

\* fill_gaps: download_CLMS for every gap, then the overwriting loop
fill_gaps ==
    /\ pc = "fill_gaps"
    /\ LET target_dekadals == [g \in 1 .. Len(gaps) |-> isoformat(gaps[g])]
           collections     == [g \in 1 .. Len(gaps) |-> CollectionFor(target_dekadals[g][1])]
       IN  IF \E g \in 1 .. Len(gaps) : collections[g] = None
           THEN /\ pc' = "error" /\ error' = "ValueError"
                /\ UNCHANGED <<composite, clms>>
           ELSE /\ \E data \in [1 .. Len(gaps) -> ClmsRasters] :
                     /\ clms' = [g \in 1 .. Len(gaps) |->
                                   [time_target |-> target_dekadals[g],
                                    collection |-> collections[g],
                                    data |-> data[g]]]
                     /\ composite' = Filled(gaps, composite, clms')
                /\ pc' = "done"
                /\ UNCHANGED error
    /\ UNCHANGED <<package, time_interval, catalog, search_interval, depth, calls,
                   search_results, target_times, xarrays, mvc, gaps, call, ret>>

Next == search \/ download \/ transform \/ fill_gaps

Spec == Init /\ [][Next]_vars

----------------------------------------------------------------------------
(* Claims about src/src/utils.py, checked under SpecDates                  *)

Returned(fn) == call.fn = fn /\ ret # <<>>

IsDekad(z) == Civil(z)[3] \in {1, 11, 21}

\* C2: for start <= end, get_dekadal_targets returns a strictly increasing
\* sequence of day-1/11/21 instants of [start, end] that holds every such
\* instant of [start, end] exactly once.
C2_DekadalTargetsExact ==
    Returned("get_dekadal_targets") =>
        LET r == ret[1]
            t(i) == fromisoformat(r[i])
        IN  /\ \A i \in 1 .. (Len(r) - 1) : t(i) < t(i + 1)
            /\ \A i \in 1 .. Len(r) :
                  /\ r[i][3] \in {1, 11, 21}
                  /\ call.start_date <= t(i) /\ t(i) <= call.end_date
            /\ \A z \in call.start_date .. call.end_date :
                  IsDekad(z) => Cardinality({ i \in 1 .. Len(r) : t(i) = z }) = 1

\* a call over a partial first month, a year boundary and a partial last month
C2_Witness ==
    /\ Returned("get_dekadal_targets")
    /\ ~IsDekad(call.start_date) /\ ~IsDekad(call.end_date)
    /\ Civil(call.start_date)[1] = 2023 /\ Civil(call.end_date) = <<2024, 3, 5>>
    /\ Len(ret[1]) = 9 /\ ret[1][1] = <<2023, 12, 11>> /\ ret[1][9] = <<2024, 3, 1>>

\* C3: has_dates_around_target is true iff some date is strictly before the
\* target and some date is strictly after it; a date equal to the target
\* counts for neither side.
C3_AroundIffStrictBothSides ==
    Returned("has_dates_around_target") =>
        (ret[1] = TRUE) <=>
            /\ \E i \in 1 .. Len(call.dates) : call.dates[i] < call.target
            /\ \E i \in 1 .. Len(call.dates) : call.dates[i] > call.target

\* dates at the target and after it, none before: the answer is False
C3_Witness ==
    /\ Returned("has_dates_around_target")
    /\ \E i \in 1 .. Len(call.dates) : call.dates[i] = call.target
    /\ \E i \in 1 .. Len(call.dates) : call.dates[i] > call.target
    /\ ret[1] = FALSE

----------------------------------------------------------------------------
(* Claims about the resolver, checked under SpecSearch                     *)

\* search has returned its results to extract
SearchReturned ==
    \/ pc \in {"download", "transform", "fill_gaps", "done"}
    \/ pc = "error" /\ error # "IndexError"

\* the dekadal targets of the originally requested interval
RequestedTargets ==
    ParsedTargets(fromisoformat(time_interval[1]), fromisoformat(time_interval[2]))

\* C1: whenever search returns, the returned observations hold one
\* observation strictly before the first dekadal target and one strictly
\* after the last dekadal target of the originally requested interval.
C1_ReturnedBracketRequestedEdges ==
    (SearchReturned /\ RequestedTargets # <<>>) =>
        /\ \E i \in 1 .. Len(search_results) : search_results[i] < RequestedTargets[1]
        /\ \E i \in 1 .. Len(search_results) :
              search_results[i] > RequestedTargets[Len(RequestedTargets)]

\* search returned after widening both edges of the requested interval
C1_Witness ==
    /\ pc = "download" /\ depth >= 2
    /\ fromisoformat(search_interval[1]) < fromisoformat(time_interval[1])
    /\ fromisoformat(search_interval[2]) > fromisoformat(time_interval[2])
    /\ Len(search_results) >= 2

\* the end-to-end scenario: 2025-08-01..2025-08-31 and a catalog holding
\* 2025-07-28, 2025-08-09, 2025-08-19 and 2025-08-25
Scenario ==
    /\ time_interval = << <<2025, 8, 1>>, <<2025, 8, 31>> >>
    /\ catalog = { ToDays(2025, 7, 28), ToDays(2025, 8, 9),
                   ToDays(2025, 8, 19), ToDays(2025, 8, 25) }

\* C9 as stated: in the scenario both edge targets are valid on the first
\* query and the resolver terminates without widening.
C9_ScenarioNoWidening ==
    (Scenario /\ calls # <<>>) =>
        /\ calls[1].valid = <<TRUE, TRUE>>
        /\ depth = 0
        /\ search_interval = time_interval

\* C9 amended: in the scenario the target series is [08-01, 08-11, 08-21];
\* the first query covers only 08-09, 08-19, 08-25, so the start edge is
\* invalid and the end edge valid; the start is widened once, by 10 days,
\* to 2025-07-22; the second query finds both edges valid and returns the
\* four observations.
C9_ScenarioWidensStartOnce ==
    Scenario =>
        /\ get_dekadal_targets(fromisoformat(time_interval[1]), fromisoformat(time_interval[2]))
              = << <<2025, 8, 1>>, <<2025, 8, 11>>, <<2025, 8, 21>> >>
        /\ Len(calls) <= 2
        /\ Len(calls) >= 1 =>
              /\ calls[1].interval = time_interval
              /\ calls[1].result_times =
                    << ToDays(2025, 8, 9), ToDays(2025, 8, 19), ToDays(2025, 8, 25) >>
              /\ calls[1].tested = << ToDays(2025, 8, 1), ToDays(2025, 8, 21) >>
              /\ calls[1].valid = <<FALSE, TRUE>>
        /\ Len(calls) >= 2 =>
              /\ calls[2].interval = << <<2025, 7, 22>>, <<2025, 8, 31>> >>
              /\ calls[2].tested = << ToDays(2025, 8, 1), ToDays(2025, 8, 21) >>
              /\ calls[2].valid = <<TRUE, TRUE>>
        /\ SearchReturned =>
              /\ depth = 1
              /\ search_results = << ToDays(2025, 7, 28), ToDays(2025, 8, 9),
                                     ToDays(2025, 8, 19), ToDays(2025, 8, 25) >>

\* the scenario's search has returned
C9_Witness == Scenario /\ pc = "download" /\ Len(calls) = 2

----------------------------------------------------------------------------
(* Claims about transform and fill_gaps, checked under Spec                *)

\* transform has produced interp_composite
Composited == pc \in {"fill_gaps", "done"}

\* interp_composite is as the interpolation left it: fill_gaps has not run
Interpolated == pc = "fill_gaps" \/ (pc = "done" /\ gaps = <<>>)

\* the observations transform composites, in time order
Ndvi == sortby(xarrays)

LeftOf(i) == LeftWindow(Ndvi, target_times, i)

RightOf(i) == RightWindow(Ndvi, target_times, i)

\* no pixel of the raster holds a value
EveryPixelMissing(raster) == \A p \in Pixels : raster[p] = NaN

TargetIndices == 1 .. Len(target_times)

InGaps(t) == \E g \in 1 .. Len(gaps) : gaps[g] = t

FourSixCase(i) ==
    /\ Composited
    /\ Len(LeftOf(i)) = 1 /\ LeftOf(i)[1].time = target_times[i] - 4
    /\ Len(RightOf(i)) = 1 /\ RightOf(i)[1].time = target_times[i] + 6

\* C5 as stated: such a target gets left * 0.6 + right * 0.4 at every pixel
\* defined in both observations.
C5_WeightsByTrueDistance ==
    \A i \in TargetIndices : FourSixCase(i) =>
        \A p \in Pixels :
            LET l == LeftOf(i)[1].data[p]
                r == RightOf(i)[1].data[p]
                v == composite[i].data[p]
            IN  (l # NaN /\ r # NaN) =>
                    /\ v # NaN
                    /\ 10 * v[1] * l[2] * r[2] = v[2] * (6 * l[1] * r[2] + 4 * r[1] * l[2])

\* C5 amended: such a target gets left * 0.5 + right * 0.5 at every pixel
\* defined in both observations: the two composites are stamped one day
\* before and one day after the target, whatever the observations' true
\* distances.
C5_EqualWeights ==
    \A i \in TargetIndices : FourSixCase(i) =>
        \A p \in Pixels :
            LET l == LeftOf(i)[1].data[p]
                r == RightOf(i)[1].data[p]
                v == composite[i].data[p]
            IN  (l # NaN /\ r # NaN) =>
                    /\ v # NaN
                    /\ 2 * v[1] * l[2] * r[2] = v[2] * (l[1] * r[2] + r[1] * l[2])

\* the 4/6 case with different values on the two sides of a pixel
C5_Witness ==
    \E i \in TargetIndices :
        /\ FourSixCase(i)
        /\ \E p \in Pixels :
              /\ LeftOf(i)[1].data[p] = <<1, 1>>
              /\ RightOf(i)[1].data[p] = <<2, 1>>
              /\ composite[i].data[p] = <<3, 2>>

\* target i has no observation in its left window and none in its right one
EmptyWindows(i) == LeftOf(i) = <<>> /\ RightOf(i) = <<>>

\* the support points of the whole series lie on both sides of instant t
Bracketed(t) ==
    /\ \E k \in 1 .. Len(mvc) : mvc[k].time < t
    /\ \E k \in 1 .. Len(mvc) : mvc[k].time > t

C7_FillTouchesOnlyGaps ==
    [][ pc = "fill_gaps" =>
          /\ Len(composite') = Len(composite)
          /\ \A i \in 1 .. Len(composite) :
                /\ composite'[i].time = composite[i].time
                /\ ~InGaps(composite[i].time) => composite'[i] = composite[i] ]_vars

\* fill_gaps has overwritten a gap and left a slice with data beside it
C7_Witness ==
    /\ pc = "done" /\ gaps # <<>> /\ Len(clms) = Len(gaps)
    /\ \E i \in 1 .. Len(composite) :
          ~InGaps(composite[i].time) /\ ~EveryPixelMissing(composite[i].data)
    /\ \E i \in 1 .. Len(composite) :
          InGaps(composite[i].time) /\ ~EveryPixelMissing(composite[i].data)

\* fill_gaps has been called and has returned or raised
GapFillEnded ==
    package = "src.pipeline" /\ gaps # <<>> /\ pc \in {"done", "error"}

YearOf(t) == Civil(t)[1]

\* C8: each gap's product is selected by its calendar year (2020 and later
\* the second, 2014 to 2019 the first); a gap of any other year makes the
\* gap-fill fail with an error that reaches the caller, never a skipped gap.
C8_EpochByYearElseError ==
    GapFillEnded =>
        IF \E g \in 1 .. Len(gaps) : YearOf(gaps[g]) < 2014
        THEN pc = "error" /\ error = "ValueError" /\ clms = <<>>
        ELSE /\ pc = "done" /\ Len(clms) = Len(gaps)
             /\ \A g \in 1 .. Len(gaps) :
                   /\ fromisoformat(clms[g].time_target) = gaps[g]
                   /\ YearOf(gaps[g]) >= 2020 => clms[g].collection = CLMS_NDVI_V2
                   /\ (YearOf(gaps[g]) >= 2014 /\ YearOf(gaps[g]) < 2020) =>
                         clms[g].collection = CLMS_NDVI_V1

\* a gap of 2010 has ended the run with the error
C8_Witness ==
    /\ GapFillEnded /\ YearOf(gaps[1]) = 2010
    /\ pc = "error" /\ error = "ValueError"

\* C10: after interpolation a target is in the gap list iff every pixel of
\* its slice is missing; fill_gaps is called only with a non-empty gap list,
\* fetches for the gaps alone, and a slice with a present pixel is never
\* overwritten.
C10_GapIffAllMissing ==
    package = "src.pipeline" =>
        /\ Interpolated =>
              \A i \in 1 .. Len(composite) :
                 InGaps(composite[i].time) <=> EveryPixelMissing(composite[i].data)
        /\ pc = "fill_gaps" => gaps # <<>>
        /\ (pc = "fill_gaps" \/ gaps = <<>>) => clms = <<>>
        /\ pc = "done" =>
              /\ \A g \in 1 .. Len(clms) : InGaps(fromisoformat(clms[g].time_target))
              /\ \A i \in 1 .. Len(composite) :
                    ~InGaps(composite[i].time) => ~EveryPixelMissing(composite[i].data)

\* a slice with one pixel missing and one present stays out of the gap list
\* while another slice is a gap
C10_Witness ==
    /\ package = "src.pipeline" /\ pc = "fill_gaps"
    /\ \E i \in 1 .. Len(composite) :
          /\ \E p \in Pixels : composite[i].data[p] = NaN
          /\ \E p \in Pixels : composite[i].data[p] # NaN
          /\ ~InGaps(composite[i].time)

----------------------------------------------------------------------------
(* Further claims about the resolver, checked under SpecSearch             *)

\* the catalog's observations lying in an interval of ISO dates, as a set
ObservationsWithin(interval) ==
    { o \in catalog : fromisoformat(interval[1]) <= o /\ o <= fromisoformat(interval[2]) }

\* the elements of a sequence, as a set
Range(seq) == { seq[i] : i \in 1 .. Len(seq) }

\* C11: the resolver returns in an iteration iff both edge checks hold for
\* that iteration's query, and it returns exactly the observations of that
\* iteration's query over the current interval.
C11_ReturnsIffBothValidThisQuery ==
    \A k \in 1 .. Len(calls) :
        LET c == calls[k]
        IN  /\ Range(c.result_times) = ObservationsWithin(c.interval)
            /\ Len(c.result_times) = Cardinality(ObservationsWithin(c.interval))
            /\ k < Len(calls) => c.valid \in {<<FALSE, FALSE>>, <<FALSE, TRUE>>, <<TRUE, FALSE>>}
            /\ k = Len(calls) =>
                  /\ SearchReturned <=> c.valid = <<TRUE, TRUE>>
                  /\ SearchReturned =>
                        /\ c.interval = search_interval
                        /\ search_results = c.result_times

\* the resolver returned from its second query more observations than its
\* first query had found
C11_Witness ==
    /\ pc = "download" /\ Len(calls) = 2
    /\ calls[1].valid = <<FALSE, TRUE>>
    /\ Len(search_results) > Len(calls[1].result_times)
    /\ Len(calls[1].result_times) > 0

----------------------------------------------------------------------------
(* Tiling: get_number_of_tiles and get_bbox_tiles, called directly.  A     *)
(* bounding box is its ground extent in metres, width and height, each a   *)
(* rational <<numerator, denominator>>; the projection to UTM that         *)
(* bbox_to_dimensions performs first is taken to preserve the extents.     *)

\* meters per pixel
RESOLUTION == 10

\* max size of one tile in pixels
MAX_TILE_SIZE == 2500

\* round(num / den) for num >= 0, den > 0: halves go to the even neighbour
round(num, den) ==
    LET q == num \div den
        r == num % den
    IN  IF 2 * r < den THEN q
        ELSE IF 2 * r > den THEN q + 1
        ELSE IF q % 2 = 0 THEN q ELSE q + 1

\* math.ceil(a / b) for a >= 0, b > 0
ceil(a, b) == (a + b - 1) \div b

\* sentinelhub.bbox_to_dimensions(bbox, resolution): the extents in pixels
bbox_to_dimensions(bbox, resolution) ==
    << round(bbox.width[1], bbox.width[2] * resolution),
       round(bbox.height[1], bbox.height[2] * resolution) >>

get_number_of_tiles(bbox, resolution, max_size) ==
    LET bbox_size == bbox_to_dimensions(bbox, resolution)
    IN  << ceil(bbox_size[1], max_size), ceil(bbox_size[2], max_size) >>

\* BBoxSplitter([area], split_shape=(nx, ny)).get_bbox_list() for an area that
\* fills its bounding box: nx * ny equal cells, column by column
get_bbox_list(bbox, nx, ny) ==
    [k \in 1 .. (nx * ny) |->
        [width  |-> << bbox.width[1],  bbox.width[2] * nx >>,
         height |-> << bbox.height[1], bbox.height[2] * ny >>,
         column |-> ((k - 1) \div ny) + 1,
         row    |-> ((k - 1) % ny) + 1]]

\* the (tiles, tile_sizes) that get_bbox_tiles returns
get_bbox_tiles(bbox) ==
    LET bbox_size == bbox_to_dimensions(bbox, RESOLUTION)
        n         == get_number_of_tiles(bbox, RESOLUTION, MAX_TILE_SIZE)
    IN  IF n[1] > 1 \/ n[2] > 1
        THEN LET tiles == get_bbox_list(bbox, n[1], n[2])
             IN  [tiles |-> tiles,
                  tile_sizes |-> [k \in 1 .. Len(tiles) |->
                                    bbox_to_dimensions(tiles[k], RESOLUTION)]]
        ELSE [tiles |-> <<bbox>>, tile_sizes |-> <<bbox_size>>]

\* the extents in metres of the areas of interest tried, from a point to an
\* area of three tiles a side
Extents == {0, 4, 15, 24996, 25005, 25006, 49990, 50004, 50006, 74990}

TileCalls ==
    { [fn |-> "get_bbox_tiles",
       bbox |-> [width |-> <<w, 1>>, height |-> <<h, 1>>, column |-> 1, row |-> 1]] :
        w \in Extents, h \in Extents }

\* get_bbox_tiles(aoi, bbox) returns
CallBboxTiles ==
    /\ call.fn = "get_bbox_tiles" /\ ret = <<>>
    /\ ret' = <<get_bbox_tiles(call.bbox)>>
    /\ UNCHANGED <<call, pipelineVars>>

\* get_number_of_tiles applied to one of the tiles get_bbox_tiles returned
CallNumberOfTiles ==
    /\ call.fn = "get_bbox_tiles" /\ Len(ret) = 1
    /\ \E k \in 1 .. Len(ret[1].tiles) :
          ret' = Append(ret, [tile |-> k,
                              count |-> get_number_of_tiles(ret[1].tiles[k],
                                                            RESOLUTION, MAX_TILE_SIZE)])
    /\ UNCHANGED <<call, pipelineVars>>

\* the requests download builds: for each search result, one per tile, each
\* carrying the result's datetime as its time range; the download client
\* answers every request, in order
DownloadResponses(results, tiles) ==
    [k \in 1 .. (Len(results) * Len(tiles)) |->
        [from |-> results[((k - 1) \div Len(tiles)) + 1],
         tile |-> ((k - 1) % Len(tiles)) + 1,
         request |-> k]]

\* [resp for resp in download_responses if ...['timeRange']['from'] == time]
ResponsesAt(download_responses, time) ==
    LET At(resp) == resp.from = time
    IN  SelectSeq(download_responses, At)

\* a merge that runs on a single fragment too
NeedsMergeAlways(response) == Len(response) > 0

\* len(response) > 1
NeedsMerge(response) == Len(response) > 1

\* the loop of process_sentinel_responses: per search result the fragments
\* used, whether merge_tiles ran, and the raster file opened
process_sentinel_responses(download_responses, results) ==
    [i \in 1 .. Len(results) |->
        LET response == ResponsesAt(download_responses, results[i])
        IN  [time |-> results[i],
             response |-> response,
             merged |-> NeedsMerge(response),
             raster_file |-> IF NeedsMerge(response)
                             THEN [mosaic |-> response]
                             ELSE [content |-> response[1]]]]

\* the datetimes of the catalog items tried; two items may carry the same one
ResultTimes == {ToDays(2025, 8, 9), ToDays(2025, 8, 19)}

\* what search can return: results on both sides of a target
AroundSome(rs) == \A t \in ResultTimes : \E i \in 1 .. Len(rs) : rs[i] = t

DownloadCalls ==
    { [fn |-> "download", search_results |-> rs,
       bbox |-> [width |-> <<w, 1>>, height |-> <<15, 1>>, column |-> 1, row |-> 1]] :
        rs \in { q \in SeqsUpTo(ResultTimes, MaxDates) : AroundSome(q) },
        w \in {15, 25006, 50006} }

\* download and process_sentinel_responses on the results of a search
CallDownload ==
    /\ call.fn = "download" /\ ret = <<>>
    /\ LET tiles == get_bbox_tiles(call.bbox).tiles
           download_responses == DownloadResponses(call.search_results, tiles)
       IN  ret' = << [tiles |-> tiles,
                      download_responses |-> download_responses,
                      xarrays |-> process_sentinel_responses(download_responses,
                                                             call.search_results)] >>
    /\ UNCHANGED <<call, pipelineVars>>

InitTiles ==
    /\ call \in TileCalls \cup DownloadCalls
    /\ ret = <<>>
    /\ package = None /\ time_interval = <<>> /\ catalog = {} /\ pc = "idle"
    /\ search_interval = <<>> /\ depth = 0 /\ calls = <<>>
    /\ search_results = <<>> /\ target_times = <<>> /\ xarrays = <<>> /\ mvc = <<>>
    /\ composite = <<>> /\ gaps = <<>> /\ clms = <<>> /\ error = None

NextTiles == CallBboxTiles \/ CallNumberOfTiles \/ CallDownload

SpecTiles == InitTiles /\ [][NextTiles]_vars

----------------------------------------------------------------------------
(* Claims about the tiler, checked under SpecTiles                         *)

\* C12: every tile produced for the area has positive pixel width and
\* height, each at most MAX_TILE_SIZE, so the tile count of any produced
\* tile is (1, 1); when nx = ny = 1 the single tile is the original bbox
\* with its own pixel size.
C12_TilesPositiveWithinMax ==
    (call.fn = "get_bbox_tiles" /\ Len(ret) >= 1) =>
        LET out == ret[1]
            n   == << ceil(bbox_to_dimensions(call.bbox, RESOLUTION)[1], MAX_TILE_SIZE),
                      ceil(bbox_to_dimensions(call.bbox, RESOLUTION)[2], MAX_TILE_SIZE) >>
        IN  /\ Len(out.tile_sizes) = Len(out.tiles)
            /\ \A k \in 1 .. Len(out.tiles) :
                  /\ out.tile_sizes[k][1] >= 1 /\ out.tile_sizes[k][1] <= MAX_TILE_SIZE
                  /\ out.tile_sizes[k][2] >= 1 /\ out.tile_sizes[k][2] <= MAX_TILE_SIZE
            /\ Len(ret) = 2 => ret[2].count = <<1, 1>>
            /\ n = <<1, 1>> =>
                  /\ out.tiles = <<call.bbox>>
                  /\ out.tile_sizes = <<bbox_to_dimensions(call.bbox, RESOLUTION)>>

\* an area 4 m wide gets a tile of zero pixel width whose tile count is not
\* (1, 1)
C12_ZeroWidthTile ==
    /\ call.fn = "get_bbox_tiles" /\ Len(ret) = 2
    /\ call.bbox.width = <<4, 1>>
    /\ ret[1].tile_sizes[1][1] = 0
    /\ ret[2].count[1] = 0

\* the number of fetched fragments that carry the datetime of observation i
FragmentsCarrying(i) ==
    Cardinality({ k \in 1 .. Len(ret[1].download_responses) :
                    ret[1].download_responses[k].from = call.search_results[i] })

DownloadReturned == call.fn = "download" /\ Len(ret) = 1

----------------------------------------------------------------------------
(* Further claims about fill_gaps, checked under Spec                      *)

\* C14: after fill_gaps every pixel of each filled gap slice is the
\* secondary-source value fetched for that exact date, times 1/250 minus
\* 0.08, that is 250 * result = value - 20.
C14_FilledSliceIsRescaledSecondary ==
    (package = "src.pipeline" /\ pc = "done" /\ gaps # <<>>) =>
        /\ Len(clms) = Len(gaps)
        /\ \A g \in 1 .. Len(gaps) :
              /\ clms[g].time_target = isoformat(gaps[g])
              /\ \E i \in 1 .. Len(composite) : composite[i].time = gaps[g]
              /\ \A i \in 1 .. Len(composite) : composite[i].time = gaps[g] =>
                    \A p \in Pixels :
                        LET v == composite[i].data[p]
                        IN  /\ v # NaN
                            /\ 250 * v[1] = v[2] * (clms[g].data[p] - 20)

\* two gaps have been filled from different secondary values, 145 giving
\* 125/250 = 0.5 and 20 giving 0
C14_Witness ==
    /\ package = "src.pipeline" /\ pc = "done" /\ Len(gaps) = 2
    /\ \E i \in 1 .. Len(composite) :
          composite[i].time = gaps[1] /\ clms[1].data[1] = 145
          /\ composite[i].data[1] = <<125, 250>>
    /\ \E i \in 1 .. Len(composite) :
          composite[i].time = gaps[2] /\ clms[2].data[1] = 20
          /\ composite[i].data[1] = <<0, 250>>

----------------------------------------------------------------------------
(* Claims about the iterations of the resolver, checked under SpecSearch   *)

\* C15: in every iteration of the resolver the two targets tested are the
\* first and the last dekadal target of the originally requested interval.
C15_TestsRequestedEdgeTargets ==
    \A k \in 1 .. Len(calls) :
        calls[k].tested # <<>> =>
            calls[k].tested = << RequestedTargets[1],
                                 RequestedTargets[Len(RequestedTargets)] >>

\* 2025-07-28..2025-08-07 with observations on 2025-07-24 and 2025-08-05,
\* which lie on both sides of the only requested target 2025-08-01: the
\* second iteration tests 2025-07-21 and 2025-08-11 and finds both invalid
C15_TestedWidenedTargets ==
    /\ time_interval = << <<2025, 7, 28>>, <<2025, 8, 7>> >>
    /\ catalog = { ToDays(2025, 7, 24), ToDays(2025, 8, 5) }
    /\ Len(calls) >= 2
    /\ calls[2].interval = << <<2025, 7, 18>>, <<2025, 8, 17>> >>
    /\ calls[2].result_times = << ToDays(2025, 7, 24), ToDays(2025, 8, 5) >>
    /\ calls[2].tested = << ToDays(2025, 7, 21), ToDays(2025, 8, 11) >>
    /\ calls[2].valid = <<FALSE, FALSE>>

\* the interval of the iteration that follows iteration k, when there is one
FollowingInterval(k) ==
    IF k < Len(calls) THEN calls[k + 1].interval ELSE search_interval

\* iteration k went on to another iteration
NonTerminal(k) == k < Len(calls) \/ (pc = "search" /\ depth = Len(calls))

\* C16: in each non-terminal iteration the start goes down by exactly 10
\* days iff the start edge is invalid and the end goes up by exactly 10 days
\* iff the end edge is invalid, a valid edge staying where it is; the
\* interval only grows and always contains the requested interval.
C16_WidensInvalidEdgesByTenDays ==
    /\ \A k \in 1 .. Len(calls) :
          /\ fromisoformat(calls[k].interval[1]) <= fromisoformat(time_interval[1])
          /\ fromisoformat(calls[k].interval[2]) >= fromisoformat(time_interval[2])
          /\ NonTerminal(k) =>
                LET start == fromisoformat(calls[k].interval[1])
                    end   == fromisoformat(calls[k].interval[2])
                    next  == FollowingInterval(k)
                IN  /\ fromisoformat(next[1]) =
                          (IF calls[k].valid[1] THEN start ELSE start - 10)
                    /\ fromisoformat(next[2]) =
                          (IF calls[k].valid[2] THEN end ELSE end + 10)
                    /\ next = << Civil(fromisoformat(next[1])), Civil(fromisoformat(next[2])) >>
    /\ fromisoformat(search_interval[1]) <= fromisoformat(time_interval[1])
    /\ fromisoformat(search_interval[2]) >= fromisoformat(time_interval[2])

\* an iteration widened both edges and the next one the end alone
C16_Witness ==
    /\ Len(calls) >= 3
    /\ calls[1].valid = <<FALSE, FALSE>>
    /\ calls[2].valid = <<TRUE, FALSE>>
    /\ calls[3].interval[1] = calls[2].interval[1]
    /\ calls[3].interval[2] # calls[2].interval[2]

----------------------------------------------------------------------------
(* Claims about the windows of transform, checked under Spec               *)

\* the acquisition times of the observations transform is given
ObsTimes == { Ndvi[k].time : k \in 1 .. Len(Ndvi) }

\* the acquisition times of a window
TimesOf(window) == { window[k].time : k \in 1 .. Len(window) }

\* a window holds exactly the observations whose times are in S, once each
HoldsExactly(window, S) == TimesOf(window) = S /\ Len(window) = Cardinality(S)

Interior == { i \in TargetIndices : 1 < i /\ i < Len(target_times) }

----------------------------------------------------------------------------
(* Claims about the support points, checked under SpecTransform            *)

\* raster data is the pixel-wise maximum of the window's observations,
\* missing values ignored
IsMaxOf(data, window) ==
    \A p \in Pixels :
        LET present == { window[j].data[p] :
                           j \in { k \in 1 .. Len(window) : window[k].data[p] # NaN } }
        IN  IF present = {} THEN data[p] = NaN
            ELSE data[p] \in present /\ \A v \in present : v[1] <= data[p][1]

\* the support points stamped at instant t
SupportsAt(t) == { k \in 1 .. Len(mvc) : mvc[k].time = t }

\* C19: each non-empty window of each target is reduced to exactly one
\* support raster, the pixel-wise maximum of its observations ignoring
\* missing values, stamped one day before the target for the left window
\* and one day after it for the right one; an empty window gives no support
\* point, so each target gives between 0 and 2.
C19_OneMaxSupportPerWindow ==
    Composited =>
        /\ \A i \in TargetIndices :
              LET t == target_times[i]
              IN  /\ Cardinality(SupportsAt(t - 1)) = (IF LeftOf(i) = <<>> THEN 0 ELSE 1)
                  /\ Cardinality(SupportsAt(t + 1)) = (IF RightOf(i) = <<>> THEN 0 ELSE 1)
                  /\ \A k \in SupportsAt(t - 1) : IsMaxOf(mvc[k].data, LeftOf(i))
                  /\ \A k \in SupportsAt(t + 1) : IsMaxOf(mvc[k].data, RightOf(i))
        /\ \A k \in 1 .. Len(mvc) :
              \E i \in TargetIndices :
                  mvc[k].time = target_times[i] - 1 \/ mvc[k].time = target_times[i] + 1

\* a window of two observations, the lower value present in one and missing
\* in the other at a pixel where the support keeps it, and an empty window
C19_Witness ==
    /\ Composited
    /\ \E i \in TargetIndices :
          /\ Len(LeftOf(i)) = 2
          /\ LeftOf(i)[1].data[1] = NaN /\ LeftOf(i)[2].data[1] = <<1, 1>>
          /\ LeftOf(i)[1].data[2] = <<1, 1>> /\ LeftOf(i)[2].data[2] = NaN
          /\ \E k \in SupportsAt(target_times[i] - 1) :
                mvc[k].data[1] = <<1, 1>> /\ mvc[k].data[2] = <<1, 1>>
    /\ \E i \in TargetIndices : RightOf(i) = <<>>

\* C20: the support points of the whole series, in the order they are
\* concatenated, have strictly increasing time stamps.
C20_SupportTimesStrictlyIncrease ==
    Composited =>
        \A k \in 1 .. (Len(mvc) - 1) : mvc[k].time < mvc[k + 1].time

\* the four support points around 21 February and 1 March 2025, 8 days
\* apart: 20, 22 and 28 February and 2 March
C20_Witness ==
    /\ Composited /\ Len(mvc) = 4
    /\ mvc[1].time = ToDays(2025, 2, 20) /\ mvc[2].time = ToDays(2025, 2, 22)
    /\ mvc[3].time = ToDays(2025, 2, 28) /\ mvc[4].time = ToDays(2025, 3, 2)

----------------------------------------------------------------------------
(* Claims about the interpolation, checked under SpecTransform             *)

\* C21: a target with no support point of the whole series before it, or
\* none after it, is left entirely missing by the interpolation: nothing is
\* extrapolated beyond the earliest or the latest support point.
C21_NoExtrapolation ==
    Interpolated =>
        \A i \in 1 .. Len(composite) :
            LET t == composite[i].time
            IN  (\/ ~ \E k \in 1 .. Len(mvc) : mvc[k].time < t
                 \/ ~ \E k \in 1 .. Len(mvc) : mvc[k].time > t) =>
                    \A p \in Pixels : composite[i].data[p] = NaN

\* the first target has its right support point, with a value at every
\* pixel, and a later support point follows, but none precedes it: its
\* slice is missing
C21_Witness ==
    /\ Interpolated /\ Len(mvc) >= 2
    /\ mvc[1].time = target_times[1] + 1
    /\ \A k \in 1 .. Len(mvc) : \A p \in Pixels : mvc[k].data[p] # NaN
    /\ \A p \in Pixels : composite[1].data[p] = NaN

----------------------------------------------------------------------------
(* Claims about the termination of the resolver, checked under SpecSearch  *)

\* the catalog holds nothing strictly before the first requested target
NothingBeforeFirst ==
    /\ RequestedTargets # <<>>
    /\ \A o \in catalog : o >= RequestedTargets[1]

\* the catalog holds nothing strictly after the last requested target
NothingAfterLast ==
    /\ RequestedTargets # <<>>
    /\ \A o \in catalog : o <= RequestedTargets[Len(RequestedTargets)]

\* every iteration made so far found one and the same edge invalid
SameEdgeInvalidSoFar ==
    /\ \A k \in 1 .. Len(calls) : calls[k].tested # <<>>
    /\ \/ \A k \in 1 .. Len(calls) : ~ calls[k].valid[1]
       \/ \A k \in 1 .. Len(calls) : ~ calls[k].valid[2]

\* C22: nothing caps the iterations of the resolver: as long as the catalog
\* yields no observation strictly before the first target, or none strictly
\* after the last target, the resolver has not returned and has not failed,
\* and every iteration made has moved the edge it found invalid by 10 days.
C22_NeverReturnsWhileAnEdgeStaysInvalid ==
    /\ SameEdgeInvalidSoFar =>
          /\ pc = "search" /\ error = None /\ search_results = <<>>
          /\ depth = Len(calls)
    /\ NothingBeforeFirst =>
          /\ pc = "search" /\ error = None /\ depth = Len(calls)
          /\ fromisoformat(search_interval[1]) =
                fromisoformat(time_interval[1]) - 10 * depth
    /\ NothingAfterLast =>
          /\ pc = "search" /\ error = None /\ depth = Len(calls)
          /\ fromisoformat(search_interval[2]) =
                fromisoformat(time_interval[2]) + 10 * depth

\* observations lie after the last requested target and none before the
\* first: the resolver has widened the start as many times as the bound on
\* the depth allows, the end staying where the first iteration left it
C22_Witness ==
    /\ NothingBeforeFirst /\ ~ NothingAfterLast
    /\ depth = MaxDepth /\ Len(calls) = MaxDepth /\ pc = "search"
    /\ calls[MaxDepth].valid = <<FALSE, TRUE>>
    /\ fromisoformat(search_interval[1]) = fromisoformat(time_interval[1]) - 10 * MaxDepth


\* the catalog holds an observation strictly before the first and one
\* strictly after the last target of the requested interval
CatalogBracketsRequest ==
    /\ RequestedTargets # <<>>
    /\ \E o \in catalog : o < RequestedTargets[1]
    /\ \E o \in catalog : o > RequestedTargets[Len(RequestedTargets)]

\* the last query returned the whole catalog and still left an edge
\* invalid: that edge is widened, its tested target moves further out with
\* it, and no later query can return anything it has not seen, so the edge
\* is invalid in every iteration to come
CannotReturnAnymore ==
    /\ pc = "search" /\ calls # <<>>
    /\ LET last == calls[Len(calls)]
       IN  /\ last.tested # <<>>
           /\ last.result_times = Ascending(catalog)
           /\ ~ last.valid[1] \/ ~ last.valid[2]

\* C23: when the catalog holds an observation strictly before the first
\* and one strictly after the last target of the requested interval, the
\* resolver returns after finitely many widening steps, so it is never in
\* a state from which it cannot return.
C23_BracketedRequestCanAlwaysReturn ==
    CatalogBracketsRequest => ~ CannotReturnAnymore

\* 2025-07-28..2025-08-07 with observations on 2025-07-24 and 2025-08-05
\* around the only requested target 2025-08-01: every iteration after the
\* first sees both observations and finds the start edge invalid
C23_BracketedYetNeverReturns ==
    /\ time_interval = << <<2025, 7, 28>>, <<2025, 8, 7>> >>
    /\ catalog = { ToDays(2025, 7, 24), ToDays(2025, 8, 5) }
    /\ CatalogBracketsRequest
    /\ depth = MaxDepth /\ pc = "search"
    /\ \A k \in 2 .. Len(calls) :
          /\ calls[k].result_times = << ToDays(2025, 7, 24), ToDays(2025, 8, 5) >>
          /\ ~ calls[k].valid[1]


\* once the resolver cannot return anymore, no iteration changes that
CannotReturnAnymoreIsStable ==
    [][CannotReturnAnymore => CannotReturnAnymore']_vars

----------------------------------------------------------------------------
(* Claims about the whole run, checked under Spec                          *)

\* C24: when the resolver has returned and its observations have been
\* composited over the targets of the requested interval, the left window
\* of the first target and the right window of the last target both hold
\* an observation.
C24_EdgeWindowsNonEmpty ==
    Composited =>
        /\ LeftOf(1) # <<>>
        /\ RightOf(Len(target_times)) # <<>>

\* 2025-08-04..2025-08-21 with observations on 2025-07-31 and 2025-08-22:
\* the resolver returns after one widening, having tested 2025-08-01 and
\* 2025-08-21, and the 10-day left window of the first requested target
\* 2025-08-11 holds nothing, so that target has no left support point
C24_EmptyLeftWindowAfterWidening ==
    /\ package = "src.pipeline"
    /\ time_interval = << <<2025, 8, 4>>, <<2025, 8, 21>> >>
    /\ catalog = { ToDays(2025, 7, 31), ToDays(2025, 8, 22) }
    /\ Composited /\ Len(calls) = 2
    /\ calls[2].tested = << ToDays(2025, 8, 1), ToDays(2025, 8, 21) >>
    /\ target_times[1] = ToDays(2025, 8, 11)
    /\ LeftOf(1) = <<>>
    /\ \A k \in 1 .. Len(mvc) : mvc[k].time > target_times[1]


\* the series of target instants has been handed to the Compositor
TargetsHandedOver == pc \in {"transform", "fill_gaps", "done"}

\* the days of the requested interval that are the 1st, 11th or 21st of a month
RequestedDekadDays ==
    { d \in fromisoformat(time_interval[1]) .. fromisoformat(time_interval[2]) :
        Civil(d)[3] \in {1, 11, 21} }

\* C25: the target series handed to the Compositor is the dekadal target
\* series of the originally requested interval: however many times the
\* resolver widened the interval, no target outside the requested
\* [start, end] is added and none inside it is dropped.
C25_TargetsOfRequestedInterval ==
    TargetsHandedOver =>
        /\ { target_times[i] : i \in 1 .. Len(target_times) } = RequestedDekadDays
        /\ Len(target_times) = Cardinality(RequestedDekadDays)
        /\ \A i \in 1 .. (Len(target_times) - 1) : target_times[i] < target_times[i + 1]

\* the resolver widened both edges and its last iteration tested targets
\* outside the requested interval; none of them is handed over
C25_Witness ==
    /\ TargetsHandedOver /\ depth >= 1
    /\ fromisoformat(search_interval[1]) < fromisoformat(time_interval[1])
    /\ fromisoformat(search_interval[2]) > fromisoformat(time_interval[2])
    /\ calls[Len(calls)].tested[1] < fromisoformat(time_interval[1])
    /\ calls[Len(calls)].tested[2] > fromisoformat(time_interval[2])
    /\ target_times # <<>>
    /\ \A i \in 1 .. Len(target_times) :
          /\ target_times[i] > calls[Len(calls)].tested[1]
          /\ target_times[i] < calls[Len(calls)].tested[2]


\* a date of the gap list has a year no product serves
SomeGapUnsupported == \E g \in 1 .. Len(gaps) : YearOf(gaps[g]) < 2014

\* C26: when a date of the gap list has an unsupported year, fill_gaps
\* fails before it modifies the composite: no slice is overwritten, the
\* slices of the supported gap dates included, and nothing is fetched.
C26_FailsBeforeOverwriting ==
    [][ (pc = "fill_gaps" /\ SomeGapUnsupported) =>
          /\ pc' = "error" /\ error' = "ValueError"
          /\ composite' = composite
          /\ clms' = <<>> ]_vars

\* the gaps 2013-12-21 and 2014-01-01: fill_gaps has failed and the slice
\* of 2014-01-01, whose year is served, is as missing as before
C26_Witness ==
    /\ pc = "error" /\ error = "ValueError" /\ Len(gaps) = 2
    /\ YearOf(gaps[1]) = 2013 /\ YearOf(gaps[2]) = 2014
    /\ CollectionFor(YearOf(gaps[2])) = CLMS_NDVI_V1
    /\ \E i \in 1 .. Len(composite) :
          /\ composite[i].time = gaps[2]
          /\ EveryPixelMissing(composite[i].data)


\* start <= end and no 1st, 11th or 21st of a month from start to end
RequestHoldsNoDekad ==
    /\ fromisoformat(time_interval[1]) <= fromisoformat(time_interval[2])
    /\ RequestedDekadDays = {}

\* C27: for a requested interval with start <= end that holds no dekadal
\* instant, get_dekadal_targets returns the empty sequence and the resolver
\* fails in its first iteration, when it selects the first and last target:
\* it widens nothing and returns no observations.
C27_NoTargetsFailsAtOnce ==
    RequestHoldsNoDekad =>
        /\ get_dekadal_targets(fromisoformat(time_interval[1]),
                               fromisoformat(time_interval[2])) = <<>>
        /\ depth = 0 /\ search_interval = time_interval /\ search_results = <<>>
        /\ \/ pc = "search" /\ calls = <<>> /\ error = None
           \/ /\ pc = "error" /\ error = "IndexError"
              /\ Len(calls) = 1 /\ calls[1].tested = <<>>

\* 2025-08-02..2025-08-09 over a catalog with an observation inside the
\* interval: the resolver has failed after its only query
C27_Witness ==
    /\ time_interval = << <<2025, 8, 2>>, <<2025, 8, 9>> >>
    /\ RequestHoldsNoDekad
    /\ pc = "error" /\ error = "IndexError"
    /\ Len(calls) = 1 /\ calls[1].result_times # <<>>
    /\ search_results = <<>> /\ depth = 0

====
